---- MODULE Spec2Model ----
(***************************************************************************)
(* Internal SOM quality indices of somperf/metrics/internal.py.            *)
(*                                                                         *)
(* Arrays are tuples: a sample matrix x and a prototype matrix som are     *)
(* tuples of coordinates (dim = 1, so the Euclidean distance of two rows   *)
(* is the absolute difference, an integer), a matrix is a tuple of rows.   *)
(* Python's None is the empty tuple: every array has at least one row.     *)
(* A float is a pair <<num, den>>; den = 0 is what numpy's division by     *)
(* zero gives: inf (num > 0), -inf (num < 0) or nan (num = 0).             *)
(***************************************************************************)
EXTENDS Integers, Sequences, FiniteSets

VARIABLES
    fn,         \* the metric of the last call ("none" before the first)
    T,          \* precomputed_distances: the caller's topology matrix
    som,        \* the caller's prototype matrix, or None
    x,          \* the caller's sample matrix, or None
    d,          \* the caller's sample-to-prototype distance matrix, or None
    k,          \* number of neighbours of the rank metrics
    ks,         \* thresholds of topographic_function, in units of 1/KScale
    max_dist,   \* max_dist of topographic_function
    som_dim,    \* som_dim of topographic_function
    sortTies,   \* how this build's np.argsort orders equal entries
    out,        \* outcome of the last call
    first,      \* outcome of the first call
    calls,      \* number of calls made
    written     \* the caller's arrays that a call has written in place

vars == <<fn, T, som, x, d, k, ks, max_dist, som_dim, sortTies, out, first,
          calls, written>>

-----------------------------------------------------------------------------
(* Bounds of the model *)

MaxSamples == 3
MaxRows == 2
MaxFunctionRows == 1
MaxRankSamples == 5
MaxK == 2
MaxKs == 2
MaxSomDim == 2
MaxCalls == 2

\* The numbers of map units, the map distances, the supplied distances and
\* the coordinates of samples and prototypes
UnitCounts == {2, 3}

TopoValues == {0, 1, 2}

DistValues == {0, 1}

Coords == {0, 1, 2}

ProtoCoords == {0, 1}

\* The thresholds of topographic_function, in units of 1 / KScale
Thresholds == {0, 2}

\* a threshold k of topographic_function is ks[i] / KScale
KScale == 2

\* np.inf as a path length or a distance
Inf == -1

None == << >>

Abs(a) == IF a < 0 THEN -a ELSE a

\* A function over 1..n as the tuple of its values
Vec(f) == f \o << >>

RECURSIVE SumSeq(_)
SumSeq(s) == IF s = << >> THEN 0 ELSE Head(s) + SumSeq(Tail(s))

RECURSIVE Pow(_, _)
Pow(b, e) == IF e = 0 THEN 1 ELSE b * Pow(b, e - 1)

SetMax(S) == CHOOSE m \in S : \A e \in S : e <= m

\* All tuples of length n over S
Tuples(n, S) == [1..n -> S]

\* All n x m matrices over S
Matrices(n, m, S) == [1..n -> [1..m -> S]]

\* Symmetric topology matrices with a zero diagonal
TopoMatrices(m) ==
    {M \in Matrices(m, m, TopoValues) :
        \A i, j \in 1..m : M[i][j] = M[j][i] /\ (i = j => M[i][j] = 0)}

\* The orders of equal entries np.argsort may produce: one priority per index
SortBuilds(m) ==
    {p \in [1..m -> 1..m] : \A i, j \in 1..m : i # j => p[i] # p[j]}

-----------------------------------------------------------------------------
(* numpy / sklearn primitives *)

\* sklearn euclidean_distances(X, Y): Y = None means Y = X
euclidean_distances(A, B) ==
    LET Y == IF B = None THEN A ELSE B
    IN  Vec([i \in 1..Len(A) |-> Vec([j \in 1..Len(Y) |-> Abs(A[i] - Y[j])])])

\* np.argmin of one row: the first index holding the minimum
argmin(row) ==
    CHOOSE u \in 1..Len(row) :
        \A v \in 1..Len(row) : row[u] < row[v] \/ (row[u] = row[v] /\ u <= v)

\* np.argsort of one row with the default kind (quicksort, not stable): equal
\* entries come in the order this build gives them
argsort(row, ties) ==
    LET m == Len(row)
        Before(u, v) ==
            row[u] < row[v] \/ (row[u] = row[v] /\ ties[u] < ties[v])
    IN  Vec([p \in 1..m |->
            CHOOSE u \in 1..m :
                Cardinality({v \in 1..m : Before(v, u)}) = p - 1])

\* np.argsort(d, axis=1)[:, :2]
tbmus(D, ties) ==
    Vec([i \in 1..Len(D) |->
        LET o == argsort(D[i], ties) IN <<o[1], o[2]>>])

Ok(v, w) == [kind |-> "ok", val |-> v, work |-> w]

Raise(e, w) == [kind |-> e, val |-> << >>, work |-> w]

-----------------------------------------------------------------------------
(* topographic_error *)

\* d is None and (som is None or x is None)
som_or_x_missing_Both(S, X, D) == D = None /\ S = None /\ X = None

som_or_x_missing(S, X, D) == D = None /\ (S = None \/ X = None)

\* precomputed_distances[...] > 1: the two best matching units are not neighbors
not_neighbors_Unequal(t) == t # 1

not_neighbors_AtLeast(t) == t >= 1

not_neighbors(t) == t > 1

topographic_error(pd, X, S, D, ties) ==
    IF som_or_x_missing(S, X, D)
    THEN Raise("ValueError", 0)
    ELSE LET dd == IF D = None THEN euclidean_distances(X, S) ELSE D
             w == IF D = None THEN 1 ELSE 0
             tb == tbmus(dd, ties)
             tes == [i \in 1..Len(dd) |->
                        IF not_neighbors(pd[tb[i][1]][tb[i][2]]) THEN 1 ELSE 0]
         IN  Ok(<<SumSeq(tes), Len(dd)>>, w + 3)

-----------------------------------------------------------------------------
(* combined_error *)

AddInf(a, b) == IF a = Inf \/ b = Inf THEN Inf ELSE a + b

MinInf(a, b) == IF a = Inf THEN b ELSE IF b = Inf THEN a ELSE IF a < b THEN a ELSE b

RECURSIVE MinInfSet(_)
MinInfSet(S) ==
    IF S = {} THEN Inf
    ELSE LET e == CHOOSE e \in S : TRUE IN MinInf(e, MinInfSet(S \ {e}))

\* csr_matrix(np.where(precomputed_distances == 1, <prototype distance>, np.inf))
\* stores the entries that are not 0: np.inf where the units are not at
\* distance 1, the prototype distance where they are and it is not 0
d_som_entries(pd, S) ==
    {e \in (1..Len(S)) \X (1..Len(S)) :
        IF pd[e[1]][e[2]] = 1 THEN Abs(S[e[1]] - S[e[2]]) # 0 ELSE TRUE}

\* d_som[i, j]: the stored entry, and 0 (the prototype distance) where none is
d_som_at(pd, S, i, j) ==
    IF pd[i][j] = 1 THEN Abs(S[i] - S[j]) ELSE Inf

\* the weight of the undirected edge {u, v} of the graph (Inf: no edge)
edge_weight(pd, S, u, v) ==
    MinInf(IF <<u, v>> \in d_som_entries(pd, S) THEN d_som_at(pd, S, u, v) ELSE Inf,
           IF <<v, u>> \in d_som_entries(pd, S) THEN d_som_at(pd, S, v, u) ELSE Inf)

\* scipy shortest_path(csgraph=d_som, directed=False, indices=src)[dst]:
\* the length of the shortest path of at most h edges
RECURSIVE shortest_path(_, _, _, _, _)
shortest_path(pd, S, src, dst, h) ==
    IF h = 0 THEN (IF src = dst THEN 0 ELSE Inf)
    ELSE MinInf(shortest_path(pd, S, src, dst, h - 1),
                MinInfSet({AddInf(shortest_path(pd, S, src, u, h - 1),
                                  edge_weight(pd, S, u, dst)) :
                           u \in (1..Len(S)) \ {dst}}))

\* the term added to ces[i] for the pair of best matching units (b1, b2)
path_term(pd, S, b1, b2) ==
    IF pd[b1][b2] = 1
    THEN d_som_at(pd, S, b1, b2)
    ELSE shortest_path(pd, S, b1, b2, Len(S) - 1)

\* np.mean of values that may be np.inf
MeanInf(v) ==
    IF \E i \in 1..Len(v) : v[i] = Inf THEN <<1, 0>> ELSE <<SumSeq(v), Len(v)>>

combined_error(pd, S, X, D, ties) ==
    IF D = None /\ X = None
    THEN Raise("ValueError", 0)
    ELSE LET w == IF D = None THEN 1 ELSE 0
         IN  IF S = None
             THEN Raise("TypeError", w)
             ELSE LET dd == IF D = None THEN euclidean_distances(X, S) ELSE D
                      tb == tbmus(dd, ties)
                      ces == [i \in 1..Len(dd) |->
                                AddInf(dd[i][tb[i][1]],
                                       path_term(pd, S, tb[i][1], tb[i][2]))]
                  IN  Ok(MeanInf(ces), w + 4)

-----------------------------------------------------------------------------
(* quantization_error, c_measure, distortion, kruskal_shepard_error *)

bmus(D) == Vec([i \in 1..Len(D) |-> argmin(D[i])])

quantization_error(S, X, D) ==
    IF som_or_x_missing(S, X, D)
    THEN Raise("ValueError", 0)
    ELSE LET dd == IF D = None THEN euclidean_distances(X, S) ELSE D
             w == IF D = None THEN 1 ELSE 0
             qes == [i \in 1..Len(dd) |-> dd[i][argmin(dd[i])]]
         IN  Ok(<<SumSeq(qes), Len(dd)>>, w + 2)

\* np.sum of a matrix
SumMatrix(M) == SumSeq([i \in 1..Len(M) |-> SumSeq(M[i])])

c_measure(pd, X, S, D) ==
    IF X = None
    THEN Raise("AttributeError", 0)
    ELSE IF D = None /\ S = None
    THEN Raise("ValueError", 0)
    ELSE LET dd == IF D = None THEN euclidean_distances(X, S) ELSE D
             w == IF D = None THEN 1 ELSE 0
             d_data == euclidean_distances(X, None)
             b == bmus(dd)
             d_som == [i \in 1..Len(b) |-> [j \in 1..Len(b) |-> pd[b[i]][b[j]]]]
             prod == [i \in 1..Len(b) |-> [j \in 1..Len(b) |->
                         d_data[i][j] * d_som[i][j]]]
         IN  Ok(<<SumMatrix(prod), 2>>, w + 4)

\* The caller's neighborhood function: 1 up to map distance 1, 0 beyond
neighborhood_fun(t) == IF t <= 1 THEN 1 ELSE 0

distortion(pd, S, X, D) ==
    IF som_or_x_missing(S, X, D)
    THEN Raise("ValueError", 0)
    ELSE LET dd == IF D = None THEN euclidean_distances(X, S) ELSE D
             w == IF D = None THEN 1 ELSE 0
             b == bmus(dd)
             distortions == [i \in 1..Len(dd) |->
                 SumSeq([u \in 1..Len(dd[i]) |->
                     neighborhood_fun(pd[b[i]][u]) * dd[i][u] * dd[i][u]])]
         IN  Ok(<<SumSeq(distortions), Len(dd)>>, w + 4)

\* M.max()
MatrixMax(M) == SetMax({M[i][j] : i \in 1..Len(M), j \in 1..Len(M)})

\* The array each local name of kruskal_shepard_error is bound to when it is
\* divided in place: euclidean_distances returns a new array, and advanced
\* indexing followed by astype copies
kse_d_data_buffer == "local"

kse_d_som_buffer_view == "T"

kse_d_som_buffer == "local"

kruskal_shepard_error(pd, X, S, D) ==
    IF X = None
    THEN Raise("AttributeError", 0)
    ELSE IF D = None /\ S = None
    THEN Raise("ValueError", 0)
    ELSE LET n == Len(X)
             dd == IF D = None THEN euclidean_distances(X, S) ELSE D
             w == IF D = None THEN 1 ELSE 0
             d_data == euclidean_distances(X, None)
             m1 == MatrixMax(d_data)
             b == bmus(dd)
             d_som == [i \in 1..n |-> [j \in 1..n |-> pd[b[i]][b[j]]]]
             m2 == MatrixMax(d_som)
             \* (d_data / m1 - d_som / m2) ** 2, over the denominator (m1 * m2) ** 2
             sq == [i \in 1..n |-> [j \in 1..n |->
                     (d_data[i][j] * m2 - d_som[i][j] * m1)
                     * (d_data[i][j] * m2 - d_som[i][j] * m1)]]
         IN  IF m1 = 0 \/ m2 = 0
             THEN Ok(<<0, 0>>, w + 6)
             ELSE Ok(<<SumMatrix(sq), m1 * m1 * m2 * m2 * (n * n - n)>>, w + 6)

-----------------------------------------------------------------------------
(* neighborhood_preservation, trustworthiness and the two in one pass *)

RECURSIVE ProdSeq(_)
ProdSeq(s) == IF s = << >> THEN 1 ELSE Head(s) * ProdSeq(Tail(s))

\* M + np.diag(np.inf * np.ones(n))
plus_inf_diagonal(M) ==
    Vec([i \in 1..Len(M) |->
        Vec([j \in 1..Len(M) |-> IF i = j THEN Inf ELSE M[i][j]])])

\* a < b for distances that may be np.inf
LessInf(a, b) == a # Inf /\ (b = Inf \/ a < b)

\* pd.DataFrame(M).rank(method="min", axis=1)
rank_min_Dense(M) ==
    Vec([i \in 1..Len(M) |-> Vec([j \in 1..Len(M[i]) |->
        1 + Cardinality({M[i][v] : v \in {u \in 1..Len(M[i]) :
                                            LessInf(M[i][u], M[i][j])}})])])

rank_min(M) ==
    Vec([i \in 1..Len(M) |-> Vec([j \in 1..Len(M[i]) |->
        1 + Cardinality({v \in 1..Len(M[i]) : LessInf(M[i][v], M[i][j])})])])

\* (ranks <= K).sum() of one row
CountLE(row, K) == Cardinality({j \in 1..Len(row) : row[j] <= K})

\* assert k < (n / 2)
k_below_half_Floor(K, n) == K < n \div 2

k_below_half(K, n) == 2 * K < n

\* d_data: euclidean_distances(x) + np.diag(np.inf * np.ones(n)), ranked
original_ranks(X) ==
    rank_min(plus_inf_diagonal(euclidean_distances(X, None)))

\* som[np.argmin(d, axis=1)]
projections(S, dd) == Vec([i \in 1..Len(dd) |-> S[argmin(dd[i])]])

\* d_projections, ranked
projected_ranks(S, X, D) ==
    rank_min(plus_inf_diagonal(euclidean_distances(
        projections(S, IF D = None THEN euclidean_distances(X, S) ELSE D), None)))

\* 1.0 - 2.0 / c * np.sum(v), where v[i] = s[i] * num[i] / den[i]: the
\* fraction over the denominator c * den[1] * ... * den[n]
OneMinus(c, s, num, den) ==
    LET L == ProdSeq(den)
    IN  <<c * L - 2 * SumSeq([i \in 1..Len(s) |-> s[i] * num[i] * (L \div den[i])]),
          c * L>>

neighborhood_preservation_ranked(K, n, wk, oranks, pranks) ==
    LET \* weights[i] = wnum[i] / wden[i]
        wnum == [i \in 1..n |-> CountLE(pranks[i], K)]
        wden == [i \in 1..n |-> CountLE(oranks[i], K)]
        \* nps[i] * wden[i] / wnum[i]: the sum of row i of arr0 without its weight
        nps == [i \in 1..n |-> SumSeq([j \in 1..n |->
                    IF i = j \/ ~(oranks[i][j] <= K /\ pranks[i][j] > K)
                    THEN 0 ELSE pranks[i][j] - K])]
        c == n * K * (2 * n - 3 * K - 1)
    IN  IF c = 0
        THEN Raise("ZeroDivisionError", wk)
        ELSE IF K < 0
        \* every entry is masked: 1.0 - 2.0 / c * 0.0
        THEN Ok(<<1, 1>>, wk)
        ELSE Ok(OneMinus(c, nps, wnum, wden), wk)

neighborhood_preservation(K, S, X, D) ==
    IF X = None
    THEN Raise("AttributeError", 0)
    ELSE IF ~k_below_half(K, Len(X))
    THEN Raise("AssertionError", 0)
    ELSE IF S = None
    THEN Raise("TypeError", 2)
    ELSE neighborhood_preservation_ranked(K, Len(X), 9,
            original_ranks(X), projected_ranks(S, X, D))

trustworthiness_ranked(K, n, wk, oranks, pranks) ==
    LET \* weights[i] = wnum[i] / wden[i]
        wnum == [i \in 1..n |-> CountLE(pranks[i], K)]
        wden == [i \in 1..n |-> CountLE(oranks[i], K)]
        \* trs[i] * wnum[i] / wden[i]: the sum of row i of arr1 without its weight
        trs == [i \in 1..n |-> SumSeq([j \in 1..n |->
                    IF i = j \/ ~(oranks[i][j] > K /\ pranks[i][j] <= K)
                    THEN 0 ELSE oranks[i][j] - K])]
        c == n * K * (2 * n - 3 * K - 1)
    IN  IF c = 0
        THEN Raise("ZeroDivisionError", wk)
        ELSE IF K < 0
        \* every entry is masked: 1.0 - 2.0 / c * 0.0
        THEN Ok(<<1, 1>>, wk)
        ELSE Ok(OneMinus(c, trs, wden, wnum), wk)

trustworthiness(K, S, X, D) ==
    IF X = None
    THEN Raise("AttributeError", 0)
    ELSE IF ~k_below_half(K, Len(X))
    THEN Raise("AssertionError", 0)
    ELSE IF S = None
    THEN Raise("TypeError", 2)
    ELSE trustworthiness_ranked(K, Len(X), 9,
            original_ranks(X), projected_ranks(S, X, D))

neighborhood_preservation_trustworthiness_SameWeight(K, n, wk, oranks, pranks) ==
    LET \* weights[i] = wnum[i] / wden[i]
        wnum == [i \in 1..n |-> CountLE(pranks[i], K)]
        wden == [i \in 1..n |-> CountLE(oranks[i], K)]
        \* nps[i] * wden[i] / wnum[i]: the sum of row i of arr0 without its weight
        nps == [i \in 1..n |-> SumSeq([j \in 1..n |->
                    IF i = j \/ ~(oranks[i][j] <= K /\ pranks[i][j] > K)
                    THEN 0 ELSE pranks[i][j] - K])]
        \* trs[i] * wnum[i] / wden[i]: the sum of row i of arr1 without its weight
        trs == [i \in 1..n |-> SumSeq([j \in 1..n |->
                    IF i = j \/ ~(oranks[i][j] > K /\ pranks[i][j] <= K)
                    THEN 0 ELSE oranks[i][j] - K])]
        c == n * K * (2 * n - 3 * K - 1)
    IN  IF c = 0
        THEN Raise("ZeroDivisionError", wk)
        ELSE IF K < 0
        \* every entry is masked: 1.0 - 2.0 / c * 0.0
        THEN Ok(<<<<1, 1>>, <<1, 1>>>>, wk)
        ELSE Ok(<<OneMinus(c, nps, wnum, wden),
                  OneMinus(c, trs, wnum, wden)>>, wk)

neighborhood_preservation_trustworthiness_ranked(K, n, wk, oranks, pranks) ==
    LET \* weights[i] = wnum[i] / wden[i]
        wnum == [i \in 1..n |-> CountLE(pranks[i], K)]
        wden == [i \in 1..n |-> CountLE(oranks[i], K)]
        \* nps[i] * wden[i] / wnum[i]: the sum of row i of arr0 without its weight
        nps == [i \in 1..n |-> SumSeq([j \in 1..n |->
                    IF i = j \/ ~(oranks[i][j] <= K /\ pranks[i][j] > K)
                    THEN 0 ELSE pranks[i][j] - K])]
        \* trs[i] * wnum[i] / wden[i]: the sum of row i of arr1 without its weight
        trs == [i \in 1..n |-> SumSeq([j \in 1..n |->
                    IF i = j \/ ~(oranks[i][j] > K /\ pranks[i][j] <= K)
                    THEN 0 ELSE oranks[i][j] - K])]
        c == n * K * (2 * n - 3 * K - 1)
    IN  IF c = 0
        THEN Raise("ZeroDivisionError", wk)
        ELSE IF K < 0
        \* every entry is masked: 1.0 - 2.0 / c * 0.0
        THEN Ok(<<<<1, 1>>, <<1, 1>>>>, wk)
        ELSE Ok(<<OneMinus(c, nps, wnum, wden),
                  OneMinus(c, trs, wden, wnum)>>, wk)

neighborhood_preservation_trustworthiness(K, S, X, D) ==
    IF X = None
    THEN Raise("AttributeError", 0)
    ELSE IF ~k_below_half(K, Len(X))
    THEN Raise("AssertionError", 0)
    ELSE IF S = None
    THEN Raise("TypeError", 2)
    ELSE neighborhood_preservation_trustworthiness_ranked(K, Len(X), 12,
            original_ranks(X), projected_ranks(S, X, D))

-----------------------------------------------------------------------------
(* topographic_function *)

\* C[c, cc] == 1 after the loop over tbmus
connected(tb, c, cc) ==
    \E i \in 1..Len(tb) : <<c, cc>> = tb[i] \/ <<cc, c>> = tb[i]

\* n_units * (n_units - 3**som_dim)
normalization_Times(n_units, sd) == n_units * (n_units - 3 * sd)

normalization(n_units, sd) == n_units * (n_units - Pow(3, sd))

topographic_function(KS, dist_fun, md, S, X, D, sd, ties) ==
    IF som_or_x_missing(S, X, D)
    THEN Raise("ValueError", 0)
    ELSE LET dd == IF D = None THEN euclidean_distances(X, S) ELSE D
             w == IF D = None THEN 1 ELSE 0
             tb == tbmus(dd, ties)
             n_units == Len(dd[1])
             \* dist_fun(c, cc) / max_dist > k and C[c, cc] == 1, for max_dist > 0
             tf == [i \in 1..Len(KS) |->
                     Cardinality({p \in (1..n_units) \X (1..n_units) :
                         /\ dist_fun[p[1]][p[2]] * KScale > KS[i] * md
                         /\ connected(tb, p[1], p[2])})]
             den == normalization(n_units, sd)
         IN  IF md = 0 /\ Len(KS) > 0
             THEN Raise("ZeroDivisionError", w + 3)
             ELSE Ok([i \in 1..Len(KS) |-> <<tf[i], den>>], w + 5)

-----------------------------------------------------------------------------
(* The caller: the arguments it builds, and its calls *)

CallerArrays == {"T", "som", "x", "d"}

\* The arrays the in-place statements of each metric write: ces of
\* combined_error, arr0 and arr1 of the rank metrics, C and tf of
\* topographic_function are new arrays of the call
inplace(name) ==
    CASE name = "kruskal_shepard_error" -> {kse_d_data_buffer, kse_d_som_buffer}
      [] name \in {"combined_error", "neighborhood_preservation",
                   "trustworthiness",
                   "neighborhood_preservation_trustworthiness",
                   "topographic_function"} -> {"local"}
      [] OTHER -> {}

Names ==
    {"c_measure", "combined_error", "distortion", "kruskal_shepard_error",
     "neighborhood_preservation", "neighborhood_preservation_trustworthiness",
     "quantization_error", "topographic_error", "topographic_function",
     "trustworthiness"}

RankNames ==
    {"neighborhood_preservation", "neighborhood_preservation_trustworthiness",
     "trustworthiness"}

\* What a call of the metric returns or raises on the caller's arguments
result(name) ==
    CASE name = "c_measure" -> c_measure(T, x, som, d)
      [] name = "combined_error" -> combined_error(T, som, x, d, sortTies)
      [] name = "distortion" -> distortion(T, som, x, d)
      [] name = "kruskal_shepard_error" -> kruskal_shepard_error(T, x, som, d)
      [] name = "neighborhood_preservation" ->
            neighborhood_preservation(k, som, x, d)
      [] name = "neighborhood_preservation_trustworthiness" ->
            neighborhood_preservation_trustworthiness(k, som, x, d)
      [] name = "quantization_error" -> quantization_error(som, x, d)
      [] name = "topographic_error" -> topographic_error(T, x, som, d, sortTies)
      [] name = "topographic_function" ->
            topographic_function(ks, T, max_dist, som, x, d, som_dim, sortTies)
      [] name = "trustworthiness" -> trustworthiness(k, som, x, d)

NoOutcome == [kind |-> "none", val |-> << >>, work |-> 0]

\* One call of the metric; a caller that calls again repeats the call with
\* the same arguments
Call(name, limit) ==
    /\ calls < limit
    /\ calls > 0 => fn = name
    /\ fn' = name
    /\ out' = result(name)
    /\ first' = IF calls = 0 THEN result(name) ELSE first
    /\ calls' = calls + 1
    /\ written' = written \cup (inplace(name) \cap CallerArrays)
    /\ UNCHANGED <<T, som, x, d, k, ks, max_dist, som_dim, sortTies>>

NoCallYet ==
    /\ fn = "none"
    /\ out = NoOutcome
    /\ first = NoOutcome
    /\ calls = 0
    /\ written = {}

\* A supplied d that puts each sample at distance 0 of one unit and 1 of the rest
AssignedDistances(n, m) ==
    {[i \in 1..n |-> [u \in 1..m |-> IF u = a[i] THEN 0 ELSE 1]] :
        a \in [1..n -> 1..m]}

Identity(m) == [i \in 1..m |-> i]

\* Non-decreasing tuples
Sorted(n, S) == {t \in Tuples(n, S) : \A i \in 1..(n - 1) : t[i] <= t[i + 1]}

\* The arguments the rank metrics and topographic_function do not get
RankDefaults == k = 1

FunctionDefaults == ks = << >> /\ max_dist = 1 /\ som_dim = 2

\* Two units at map distance 1
Adjacent2 == << <<0, 1>>, <<1, 0>> >>

\* Every metric, with an argument present or absent
Init ==
    /\ NoCallYet
    /\ FunctionDefaults
    /\ T = Adjacent2
    /\ sortTies = Identity(2)
    /\ k \in 0..MaxK
    /\ som \in {None} \cup Tuples(2, ProtoCoords)
    /\ \E n \in 1..MaxSamples :
        /\ x \in {None} \cup Sorted(n, ProtoCoords)
        /\ d \in {None} \cup AssignedDistances(n, 2)

\* topographic_error on a supplied distance matrix
InitTopo ==
    /\ NoCallYet
    /\ FunctionDefaults
    /\ RankDefaults
    /\ som = None
    /\ x = None
    /\ \E m \in UnitCounts, n \in 1..MaxRows :
        /\ T \in TopoMatrices(m)
        /\ sortTies \in SortBuilds(m)
        /\ d \in Matrices(n, m, DistValues)

\* combined_error on samples and prototypes
InitCombined ==
    /\ NoCallYet
    /\ FunctionDefaults
    /\ RankDefaults
    /\ d = None
    /\ \E m \in UnitCounts, n \in 1..MaxRows :
        /\ T \in TopoMatrices(m)
        /\ sortTies \in SortBuilds(m)
        /\ som \in Tuples(m, ProtoCoords)
        /\ x \in Tuples(n, ProtoCoords)

\* the rank metrics
InitRank ==
    /\ NoCallYet
    /\ FunctionDefaults
    /\ T = Adjacent2
    /\ sortTies = Identity(2)
    /\ k \in (-1)..MaxK
    /\ som \in {None} \cup Tuples(2, ProtoCoords)
    /\ \E n \in 1..MaxRankSamples :
        /\ x \in Sorted(n, Coords)
        /\ d \in {None} \cup AssignedDistances(n, 2)

\* topographic_function on a supplied distance matrix
InitFunction ==
    /\ NoCallYet
    /\ RankDefaults
    /\ som = None
    /\ x = None
    /\ max_dist \in TopoValues
    /\ som_dim \in 1..MaxSomDim
    /\ \E len \in 0..MaxKs : ks \in Tuples(len, Thresholds)
    /\ \E m \in UnitCounts, n \in 1..MaxFunctionRows :
        /\ T \in TopoMatrices(m)
        /\ sortTies = Identity(m)
        /\ d \in Matrices(n, m, DistValues)

Call_c_measure == Call("c_measure", MaxCalls)

Call_combined_error == Call("combined_error", MaxCalls)

Call_distortion == Call("distortion", MaxCalls)

Call_kruskal_shepard_error == Call("kruskal_shepard_error", MaxCalls)

Call_neighborhood_preservation == Call("neighborhood_preservation", MaxCalls)

Call_neighborhood_preservation_trustworthiness ==
    Call("neighborhood_preservation_trustworthiness", MaxCalls)

Call_quantization_error == Call("quantization_error", MaxCalls)

Call_topographic_error == Call("topographic_error", MaxCalls)

Call_topographic_function == Call("topographic_function", MaxCalls)

Call_trustworthiness == Call("trustworthiness", MaxCalls)

Next ==
    \/ Call_c_measure
    \/ Call_combined_error
    \/ Call_distortion
    \/ Call_kruskal_shepard_error
    \/ Call_neighborhood_preservation
    \/ Call_neighborhood_preservation_trustworthiness
    \/ Call_quantization_error
    \/ Call_topographic_error
    \/ Call_topographic_function
    \/ Call_trustworthiness

Spec == Init /\ [][Next]_vars

Once_topographic_error == Call("topographic_error", 1)

NextTopo == Once_topographic_error

SpecTopo == InitTopo /\ [][NextTopo]_vars

Once_combined_error == Call("combined_error", 1)

NextCombined == Once_combined_error

SpecCombined == InitCombined /\ [][NextCombined]_vars

Once_neighborhood_preservation == Call("neighborhood_preservation", 1)

Once_trustworthiness == Call("trustworthiness", 1)

Once_neighborhood_preservation_trustworthiness ==
    Call("neighborhood_preservation_trustworthiness", 1)

NextRank ==
    \/ Once_neighborhood_preservation
    \/ Once_trustworthiness
    \/ Once_neighborhood_preservation_trustworthiness

SpecRank == InitRank /\ [][NextRank]_vars

Once_topographic_function == Call("topographic_function", 1)

NextFunction == Once_topographic_function

SpecFunction == InitFunction /\ [][NextFunction]_vars

-----------------------------------------------------------------------------
(* Properties: missing inputs, the bound on k, repeated calls *)

\* The inputs whose absence a metric's check on d looks at
CheckedInputs(name) ==
    CASE name \in {"c_measure", "kruskal_shepard_error"} -> {"som"}
      [] name = "combined_error" -> {"x"}
      [] name \in RankNames -> {}
      [] OTHER -> {"som", "x"}

Absent == {a \in {"som", "x"} : (a = "som" /\ som = None) \/ (a = "x" /\ x = None)}

\* C1, as the specification states it: every metric raises ValueError before
\* any computation when d is not supplied and x or som is missing.
MissingInputRaisedByEveryMetric ==
    (fn \in Names /\ d = None /\ Absent # {})
        => (out.kind = "ValueError" /\ out.work = 0)

\* C1, as the code has it: with d not supplied, a metric raises ValueError
\* before any computation when an input its check looks at is missing (som
\* for c_measure and kruskal_shepard_error, given x; x for combined_error; som
\* or x for distortion, quantization_error, topographic_error and
\* topographic_function); the rank metrics have no such check and never raise
\* ValueError; c_measure and kruskal_shepard_error without x raise
\* AttributeError; combined_error with x but without som raises TypeError
\* after it has computed something.
MissingCheckedInputRaised ==
    /\ (/\ fn \in Names
        /\ d = None
        /\ CheckedInputs(fn) \cap Absent # {}
        /\ (fn \in {"c_measure", "kruskal_shepard_error"} => x # None))
            => (out.kind = "ValueError" /\ out.work = 0)
    /\ fn \in RankNames => out.kind # "ValueError"
    /\ (fn \in {"c_measure", "kruskal_shepard_error"} /\ x = None)
            => out.kind = "AttributeError"
    /\ (fn = "combined_error" /\ d = None /\ x # None /\ som = None)
            => (out.kind = "TypeError" /\ out.work > 0)

\* quantization_error without x and d has raised ValueError at once
MissingCheckedInputSeen ==
    /\ fn = "quantization_error"
    /\ d = None
    /\ x = None
    /\ som # None
    /\ out.kind = "ValueError"
    /\ out.work = 0

-----------------------------------------------------------------------------
(* Properties: topographic_error *)

\* The map distance of the two best matching units the call found for sample i
bmu_pair_distance(i) ==
    LET tb == tbmus(d, sortTies) IN T[tb[i][1]][tb[i][2]]

TopographicErrorReturned == fn = "topographic_error" /\ out.kind = "ok"

second_lowest(row) ==
    LET b1 == argmin(row)
    IN  CHOOSE u \in (1..Len(row)) \ {b1} :
            \A v \in (1..Len(row)) \ {b1} :
                row[u] < row[v] \/ (row[u] = row[v] /\ u <= v)

\* C7: the pair of best matching units of every sample is the unit of the
\* lowest index among the nearest, which is what argmin picks, and the unit of
\* the lowest index among the nearest of the rest.
BmuPairTakesLowestIndex ==
    TopographicErrorReturned
        => \A i \in 1..Len(d) :
                tbmus(d, sortTies)[i] = <<argmin(d[i]), second_lowest(d[i])>>

\* C8: topographic_error returns a value between 0 and 1, and 0 when the two
\* best matching units of every sample are at map distance 1.
TopographicErrorInUnitInterval ==
    TopographicErrorReturned
        => /\ 0 <= out.val[1]
           /\ out.val[1] <= out.val[2]
           /\ out.val[2] > 0
           /\ (\A i \in 1..Len(d) : bmu_pair_distance(i) = 1) => out.val[1] = 0

\* three units all at map distance 1 of each other: the result is 0
AllAdjacentGivesZero ==
    /\ TopographicErrorReturned
    /\ Len(T) = 3
    /\ Len(d) = 2
    /\ \A i, j \in 1..3 : i # j => T[i][j] = 1
    /\ out.val = <<0, 2>>

-----------------------------------------------------------------------------
(* Properties: combined_error *)

\* The length of the shortest path of at most h edges from src to dst over
\* the pairs of units at map distance 1, each edge as long as the distance of
\* its two prototypes, 0 included
RECURSIVE adjacency_path(_, _, _, _, _)
adjacency_path(pd, S, src, dst, h) ==
    IF h = 0 THEN (IF src = dst THEN 0 ELSE Inf)
    ELSE MinInf(adjacency_path(pd, S, src, dst, h - 1),
                MinInfSet({AddInf(adjacency_path(pd, S, src, u, h - 1),
                                  Abs(S[u] - S[dst])) :
                           u \in {v \in 1..Len(S) : pd[v][dst] = 1}}))

\* Four units in a line, prototypes at 0, 1, 2, 3
Line4 ==
    [i \in 1..4 |-> [j \in 1..4 |-> Abs(i - j)]]

\* C4: combined_error is the mean over the samples of the distance to the best
\* matching unit plus the distance of the prototypes of the two best matching
\* units when these are at map distance 1, and else the length of the shortest
\* path between them over units at map distance 1, edges of length 0 included;
\* on four units in a line with prototypes 0, 1, 2, 3 the path from the first
\* to the last is 3 long.
CombinedErrorAddsAdjacencyPath ==
    /\ (fn = "combined_error" /\ out.kind = "ok")
        => LET dd == euclidean_distances(x, som)
               tb == tbmus(dd, sortTies)
           IN  out.val = MeanInf([i \in 1..Len(x) |->
                   AddInf(dd[i][tb[i][1]],
                          IF T[tb[i][1]][tb[i][2]] = 1
                          THEN Abs(som[tb[i][1]] - som[tb[i][2]])
                          ELSE adjacency_path(T, som, tb[i][1], tb[i][2],
                                              Len(som) - 1))])
    /\ path_term(Line4, <<0, 1, 2, 3>>, 1, 4) = 3

-----------------------------------------------------------------------------
(* Properties: the rank metrics *)

\* 0 <= v <= 1 for a float v
InUnitInterval(v) ==
    /\ v[2] # 0
    /\ IF v[2] > 0 THEN 0 <= v[1] /\ v[1] <= v[2]
                   ELSE v[1] <= 0 /\ v[2] <= v[1]

\* C5: for every n >= 1 and every k below n / 2, neighborhood_preservation and
\* trustworthiness return a value between 0 and 1, and 1 when the ranks in
\* the data and in the projection are the same.
RankScoresInUnitInterval ==
    (/\ fn \in {"neighborhood_preservation", "trustworthiness"}
     /\ som # None
     /\ 2 * k < Len(x))
        => /\ out.kind = "ok"
           /\ InUnitInterval(out.val)
           /\ original_ranks(x) = projected_ranks(som, x, d) => out.val[1] = out.val[2]

\* C5 for 1 <= k < n / 2 only, where the normalizing constant is not 0: the
\* two scores are returned and lie between 0 and 1.
RankScoresInUnitIntervalForPositiveK ==
    (/\ fn \in {"neighborhood_preservation", "trustworthiness"}
     /\ som # None
     /\ k >= 1
     /\ 2 * k < Len(x))
        => /\ out.kind = "ok"
           /\ InUnitInterval(out.val)

\* C6: neighborhood_preservation_trustworthiness returns the pair of what
\* neighborhood_preservation and trustworthiness return on the same
\* arguments, and fails when and as they fail.
BothScoresAreTheTwoScores ==
    fn = "neighborhood_preservation_trustworthiness"
        => LET np == neighborhood_preservation(k, som, x, d)
               tr == trustworthiness(k, som, x, d)
           IN  /\ (out.kind = "ok") <=> (np.kind = "ok" /\ tr.kind = "ok")
               /\ out.kind = "ok" => out.val = <<np.val, tr.val>>
               /\ out.kind # "ok" => (out.kind = np.kind /\ out.kind = tr.kind)

\* the pair was returned with two different scores, neither of them 1
TwoDifferentScoresReturned ==
    /\ fn = "neighborhood_preservation_trustworthiness"
    /\ out.kind = "ok"
    /\ k = 2
    /\ out.val[1][1] # out.val[1][2]
    /\ out.val[2][1] # out.val[2][2]
    /\ out.val[1][1] * out.val[2][2] # out.val[2][1] * out.val[1][2]

-----------------------------------------------------------------------------
(* Properties: topographic_function *)

\* The number of ordered pairs of units that are the two best matching units
\* of some sample and whose map distance over max_dist is above ks[i] / KScale
pairs_beyond(i) ==
    LET tb == tbmus(d, sortTies)
    IN  Cardinality({p \in (1..Len(T)) \X (1..Len(T)) :
            /\ \E s \in 1..Len(d) : tb[s] = p \/ tb[s] = <<p[2], p[1]>>
            /\ T[p[1]][p[2]] * KScale > ks[i] * max_dist})

\* C9, as the specification states it: topographic_function returns one
\* finite value for each element of ks, the number of pairs of best matching
\* units beyond the threshold over n_units * (n_units - 3 ** som_dim).
TopographicFunctionValuesFinite ==
    (fn = "topographic_function" /\ max_dist > 0)
        => /\ out.kind = "ok"
           /\ Len(out.val) = Len(ks)
           /\ \A i \in 1..Len(ks) :
                /\ out.val[i] = <<pairs_beyond(i), Len(T) * (Len(T) - Pow(3, som_dim))>>
                /\ out.val[i][2] # 0

\* C9, as the code has it: for max_dist > 0 topographic_function returns one
\* value for each element of ks, the number of pairs of best matching units
\* beyond the threshold over n_units * (n_units - 3 ** som_dim); the values
\* are finite exactly when n_units differs from 3 ** som_dim.
TopographicFunctionValues ==
    (fn = "topographic_function" /\ max_dist > 0)
        => /\ out.kind = "ok"
           /\ Len(out.val) = Len(ks)
           /\ \A i \in 1..Len(ks) :
                /\ out.val[i] = <<pairs_beyond(i), Len(T) * (Len(T) - Pow(3, som_dim))>>
                /\ (out.val[i][2] # 0) <=> (Len(T) # Pow(3, som_dim))

\* three units on a map of dimension 1: a value that is not finite
ValueNotFiniteSeen ==
    /\ fn = "topographic_function"
    /\ out.kind = "ok"
    /\ Len(T) = 3
    /\ som_dim = 1
    /\ Len(ks) = 2
    /\ out.val[1] = <<2, 0>>
    /\ out.val[2] = <<0, 0>>

-----------------------------------------------------------------------------
(* Properties: the rank matrices *)

\* 1 + the number of entries of row i of the distance matrix of the points P,
\* its diagonal entry at infinity, that are strictly smaller than entry (i, j)
rank_by_count(P, i, j) ==
    IF i = j
    THEN 1 + Cardinality((1..Len(P)) \ {i})
    ELSE 1 + Cardinality({v \in (1..Len(P)) \ {i} :
                Abs(P[i] - P[v]) < Abs(P[i] - P[j])})

\* C11: in the rank metrics the original and the projected rank of (i, j) is
\* 1 + the number of entries of row i strictly smaller than entry (i, j),
\* the diagonal entry being at infinity, so that tied entries share the
\* lowest rank; and for k < n / 2 the own entry of a sample never has a
\* rank <= k and is in no count of neighbours.
RanksCountStrictlySmaller ==
    (fn \in RankNames /\ som # None /\ 2 * k < Len(x))
        => LET n == Len(x)
               o == original_ranks(x)
               p == projected_ranks(som, x, d)
               pts == projections(som,
                        IF d = None THEN euclidean_distances(x, som) ELSE d)
           IN  \A i \in 1..n :
                /\ \A j \in 1..n :
                    /\ o[i][j] = rank_by_count(x, i, j)
                    /\ p[i][j] = rank_by_count(pts, i, j)
                /\ o[i][i] > k
                /\ p[i][i] > k
                /\ CountLE(o[i], k) =
                        Cardinality({j \in (1..n) \ {i} : o[i][j] <= k})
                /\ CountLE(p[i], k) =
                        Cardinality({j \in (1..n) \ {i} : p[i][j] <= k})

\* a row with two equal smallest distances: ranks 1, 1, then 3, own entry n
TiedRanksSeen ==
    /\ fn = "neighborhood_preservation"
    /\ out.kind = "ok"
    /\ k = 1
    /\ Len(x) = 4
    /\ original_ranks(x)[1] = <<4, 1, 1, 3>>

====
